---- MODULE Spec2Model ----
(***************************************************************************)
(* Model of ecr-insights (src/main.rs): a one-shot report of the storage   *)
(* cost of the images of every repository of a container registry.         *)
(*                                                                         *)
(* main -> repos -> load_all_repositories / load_all_images (recursive     *)
(* pagination, one request per step), then per repository retain + sort_by *)
(* + the Repo summary, then in main the sort of the summaries, one row per *)
(* repository and, for tsv, a total line and the flush of the TabWriter.   *)
(*                                                                         *)
(* Option<T> is a sequence: None is <<>>, Some(v) is <<v>>.                *)
(* A push timestamp (f64 seconds) is a whole number of ticks, with         *)
(* TicksPerSecond ticks to the second, so that the cast `as i64` of        *)
(* pushed_at is a real truncation.  Costs (f64) are exact numerators over  *)
(* the fixed denominator 100 * 100 * 2^30.  Image sizes and their sums are *)
(* far below 2^63 (the registry caps image count and layer size), so the   *)
(* i64 sums are exact.                                                     *)
(***************************************************************************)
EXTENDS Integers, Sequences, FiniteSets, TLC

\* ---------------------------------------------------------------- bounds
MaxRepos == 3
MaxPages == 3
MaxImages == 2
MaxSize == 2
MaxTick == 3
TicksPerSecond == 2
MaxCutoff == 2
MaxCap == 2

\* most requests a run over a finite chain can make; a chain whose last
\* page points back to a page is followed up to this many requests
MaxRequests == MaxPages * (MaxRepos + 1)

\* ------------------------------------------------------- program constants
MaxResults == 1000
CompressionPct == 65
PricePct == 10

\* ------------------------------------------------------------------ Option
None == <<>>

Some(v) == <<v>>

is_some(o) == o # <<>>

unwrap_or_default(o, default) == IF o = <<>> THEN default ELSE o[1]

\* ---------------------------------------------------------------- helpers
SeqsUpTo(S, n) == UNION {[1..k -> S] : k \in 0..n}

RECURSIVE Flatten(_)
Flatten(ss) == IF ss = <<>> THEN <<>> ELSE Head(ss) \o Flatten(Tail(ss))

RECURSIVE SumSeq(_)
SumSeq(s) == IF s = <<>> THEN 0 ELSE Head(s) + SumSeq(Tail(s))

\* Iterator::take
take(s, n) == SubSeq(s, 1, IF n < Len(s) THEN n ELSE Len(s))

\* Vec::retain with the predicate given as the sequence of its values
RECURSIVE retain(_, _)
retain(s, keep) ==
  IF s = <<>> THEN <<>>
  ELSE (IF Head(keep) THEN <<Head(s)>> ELSE <<>>) \o retain(Tail(s), Tail(keep))

\* slice::sort_by is a stable sort.  The position of element i among the
\* already ordered first i-1 elements: behind every element that does not
\* come after it.
InsertBehindEqual(ord, i, keys) ==
  LET k == Cardinality({q \in 1..Len(ord) : keys[ord[q]] >= keys[i]})
  IN  SubSeq(ord, 1, k) \o <<i>> \o SubSeq(ord, k + 1, Len(ord))

RECURSIVE SortedOrder(_, _)
SortedOrder(keys, n) ==
  IF n = 0 THEN <<>> ELSE InsertBehindEqual(SortedOrder(keys, n - 1), n, keys)

\* sort_by(|a, b| key(b).cmp(&key(a))): descending by key, stable
sort_by_desc(s, keys) ==
  LET ord == SortedOrder(keys, Len(s)) IN [q \in 1..Len(s) |-> s[ord[q]]]

\* --------------------------------------------------------------- registry
ImageDetail(t, s) == [image_pushed_at |-> t, image_size_in_bytes |-> s]

Repository(n) == [repository_name |-> Some(n)]

\* a chain of pages: page i is reached by token i (the first by no token),
\* its response carries token i+1, the last page carries last_next
Chain(pages, last) == [pages |-> pages, last_next |-> last]

OnePage(items) == Chain(<<Some(items)>>, None)

PageOf(chain, token) == unwrap_or_default(token, 1)

NextTokenOf(chain, token) ==
  IF PageOf(chain, token) < Len(chain.pages)
  THEN Some(PageOf(chain, token) + 1) ELSE chain.last_next

\* the page a request reads, and the response of the registry to it
DescribeResponse(chain, token) ==
  [items |-> chain.pages[PageOf(chain, token)],
   next_token |-> NextTokenOf(chain, token)]

\* every way of cutting the sequence s into k consecutive pages (pages may be
\* empty, and an empty page may come with no item list at all)
Cuts(n, k) ==
  {c \in [1..(k - 1) -> 0..n] : \A i, j \in 1..(k - 1) : i <= j => c[i] <= c[j]}

PagesOf(s, k, c, absent) ==
  [i \in 1..k |->
     LET from  == IF i = 1 THEN 0 ELSE c[i - 1]
         to    == IF i = k THEN Len(s) ELSE c[i]
         items == SubSeq(s, from + 1, to)
     IN  IF items = <<>> /\ absent[i] THEN None ELSE Some(items)]

SplitsInto(s, k) ==
  {PagesOf(s, k, c, absent) : c \in Cuts(Len(s), k), absent \in [1..k -> BOOLEAN]}

Splits(s) == UNION {SplitsInto(s, k) : k \in 1..MaxPages}

\* the last page of a chain carries no token, or (a registry that never ends
\* the listing) the token of the first page again
Chains(s) == {Chain(pages, last) : pages \in Splits(s), last \in {None, Some(1)}}

\* ------------------------------------------------------------ cost model
\* pushed_at: the f64 timestamp (absent: 0.0) cast `as i64` to whole seconds
pushed_at(details) ==
  unwrap_or_default(details.image_pushed_at, 0) \div TicksPerSecond

size_of(details) == unwrap_or_default(details.image_size_in_bytes, 0)

\* Repo::monthly_cost and Repo::monthly_capped_cost, as numerators over
\* 100 * 100 * 2^30
monthly_cost(repo) == repo.aggregate_image_size * CompressionPct * PricePct

monthly_capped_cost(repo) == repo.recent_image_size * CompressionPct * PricePct

\* faulty variant: images pushed in the very second of the cutoff are kept
retain_images_inclusive(imgs, cutoff) ==
  retain(imgs, [i \in 1..Len(imgs) |-> pushed_at(imgs[i]) <= cutoff])

\* images.retain(|details| pushed_at(details) < first_of_the_month)
retain_images(imgs, cutoff) ==
  retain(imgs, [i \in 1..Len(imgs) |-> pushed_at(imgs[i]) < cutoff])

\* images.sort_by(|a, b| pushed_at(b).cmp(&pushed_at(a)))
sort_images(imgs) ==
  sort_by_desc(imgs, [i \in 1..Len(imgs) |-> pushed_at(imgs[i])])

\* the list `images` of the closure of repos after retain and sort_by
ranked_images(imgs, cutoff) == sort_images(retain_images(imgs, cutoff))

\* faulty variant: the window is one image too long
capped_images_one_more(imgs, n) == take(imgs, n + 1)

\* images.clone().into_iter().take(cap)
capped_images(imgs, n) == take(imgs, n)

sizes(imgs) == [i \in 1..Len(imgs) |-> size_of(imgs[i])]

\* faulty variant: the two sums are stored in each other's field
Repo_sums_swapped(repository_name, imgs, n) ==
  [name                 |-> repository_name,
   last_pushed_at       |-> IF imgs = <<>> THEN None ELSE Some(pushed_at(imgs[1])),
   latest_image_size    |-> IF imgs = <<>> THEN 0 ELSE size_of(imgs[1]),
   aggregate_image_size |-> SumSeq(sizes(take(imgs, n))),
   recent_image_size    |-> SumSeq(sizes(imgs)),
   hosted_images        |-> Len(imgs)]

\* the Repo value pushed by the closure of repos, from the ranked list
Repo(repository_name, imgs, n) ==
  [name                 |-> repository_name,
   last_pushed_at       |-> IF imgs = <<>> THEN None ELSE Some(pushed_at(imgs[1])),
   latest_image_size    |-> IF imgs = <<>> THEN 0 ELSE size_of(imgs[1]),
   aggregate_image_size |-> SumSeq(sizes(imgs)),
   recent_image_size    |-> SumSeq(sizes(capped_images(imgs, n))),
   hosted_images        |-> Len(imgs)]

Reverse(s) == [i \in 1..Len(s) |-> s[Len(s) + 1 - i]]

\* faulty variant: an unstable sort, repositories of equal size come out in
\* the reverse of the listing order
sort_repos_ties_reversed(rs) ==
  sort_by_desc(Reverse(rs), [i \in 1..Len(rs) |-> Reverse(rs)[i].latest_image_size])

\* repos.sort_by(|a, b| b.latest_image_size.cmp(&a.latest_image_size))
sort_repos(rs) ==
  sort_by_desc(rs, [i \in 1..Len(rs) |-> rs[i].latest_image_size])

\* the lines of the report
Row(repo) ==
  [kind                |-> "row",
   name                |-> repo.name,
   last_pushed_at      |-> repo.last_pushed_at,
   latest_image_size   |-> repo.latest_image_size,
   hosted_images       |-> repo.hosted_images,
   monthly_cost        |-> monthly_cost(repo),
   monthly_capped_cost |-> monthly_capped_cost(repo)]

\* faulty variant: the full cost is added to both totals
accumulate_cost_twice(t, repo) ==
  <<t[1] + monthly_cost(repo), t[2] + monthly_cost(repo)>>

\* Ok((cost + monthly_cost, capped_cost + monthly_capped_cost))
accumulate(t, repo) ==
  <<t[1] + monthly_cost(repo), t[2] + monthly_capped_cost(repo)>>

TotalLine(t) == [kind |-> "total", monthly |-> t[1], capped |-> t[2]]

\* ------------------------------------------------------------------ state
VARIABLES
  registry,            \* the registry: its repository chain and image chains
  format, cap,         \* Opts
  first_of_the_month,  \* the cutoff, in whole seconds
  pc,                  \* position of the run
  result,              \* "running", or how main ended: "ok", "error", "panic"
  requests, responses, \* the page requests made and their responses, in order
  next,                \* the token of the pending recursive call
  pending,             \* the item lists held by the calls that wait for it
  repositories,        \* what load_all_repositories returned
  idx,                 \* position of try_fold in repositories
  loaded,              \* what load_all_images returned for repository idx
  images,              \* the last `images` after retain and sort_by
  repos,               \* the accumulator of try_fold, then what repos returned
  sorted_repos,        \* `repos` of main after sort_by
  row,                 \* position of the fold of main in sorted_repos
  totals,              \* the accumulator (cost, capped_cost) of the fold of main
  writer,              \* lines held by the TabWriter
  out                  \* lines that reached standard output

vars == <<registry, format, cap, first_of_the_month, pc, result, requests,
          responses, next, pending, repositories, idx, loaded, images, repos,
          sorted_repos, row, totals, writer, out>>

inputs == <<registry, format, cap, first_of_the_month>>

Formats == {"tsv", "csv", "json"}

\* ------------------------------------------------------------------ inputs
Repositories(n) == [i \in 1..n |-> Repository(i)]

\* image records of every timestamp and size
RankImages ==
  {ImageDetail(t, z) :
     t \in {None} \cup {Some(k) : k \in 1..MaxTick},
     z \in {None} \cup {Some(k) : k \in 1..MaxSize}}

\* two different image records, to tell the pages of a listing apart
PageImages == {ImageDetail(Some(1), Some(1)), ImageDetail(None, None)}

\* image records pushed before every cutoff, of every size
ReportImages == {ImageDetail(Some(1), z) : z \in {None} \cup {Some(k) : k \in 1..MaxSize}}

\* the image collections of the repositories of a report: none, one image, or
\* two images of the largest size
ReportCollections ==
  SeqsUpTo(ReportImages, 1)
    \cup {<<ImageDetail(Some(1), Some(MaxSize)), ImageDetail(None, Some(MaxSize))>>}

Start ==
  /\ pc = "load_all_repositories"
  /\ result = "running"
  /\ requests = <<>>
  /\ responses = <<>>
  /\ next = None
  /\ pending = <<>>
  /\ repositories = <<>>
  /\ idx = 0
  /\ loaded = <<>>
  /\ images = <<>>
  /\ repos = <<>>
  /\ sorted_repos = <<>>
  /\ row = 0
  /\ totals = <<0, 0>>
  /\ writer = <<>>
  /\ out = <<>>

\* one repository, one page: every image collection, cutoff and cap
InitRank ==
  /\ \E imgs \in SeqsUpTo(RankImages, MaxImages) :
       registry = [repositories |-> OnePage(Repositories(1)),
                   images       |-> [n \in 1..1 |-> OnePage(imgs)]]
  /\ format = "tsv"
  /\ cap \in 0..MaxCap
  /\ first_of_the_month \in 1..MaxCutoff
  /\ Start

\* every paging of the repository listing, and of the images of one repository
InitPages ==
  /\ \/ \E n \in 0..MaxRepos : \E chain \in Chains(Repositories(n)) :
          registry = [repositories |-> chain,
                      images       |-> [i \in 1..n |-> OnePage(<<>>)]]
     \/ \E imgs \in SeqsUpTo(PageImages, MaxImages) : \E chain \in Chains(imgs) :
          registry = [repositories |-> OnePage(Repositories(1)),
                      images       |-> [i \in 1..1 |-> chain]]
  /\ format \in Formats
  /\ cap = MaxCap
  /\ first_of_the_month = MaxCutoff
  /\ Start

\* every report: any number of repositories, every format and cap
InitReport ==
  /\ \E n \in 0..MaxRepos : \E imgs \in [1..n -> ReportCollections] :
       registry = [repositories |-> OnePage(Repositories(n)),
                   images       |-> [i \in 1..n |-> OnePage(imgs[i])]]
  /\ format \in Formats
  /\ cap \in 0..MaxCap
  /\ first_of_the_month = MaxCutoff
  /\ Start

Init == InitRank \/ InitPages \/ InitReport

\* ---------------------------------------------------------------- actions
DescribeRepositoriesRequest(token) ==
  [op              |-> "describe_repositories",
   repository_name |-> None,
   max_results     |-> Some(MaxResults),
   next_token      |-> token]

DescribeImagesRequest(repository_name, token) ==
  [op              |-> "describe_images",
   repository_name |-> Some(repository_name),
   max_results     |-> Some(MaxResults),
   next_token      |-> token]

\* faulty variant: the recursive call is started with no token again
recursive_token_dropped(res) == None

\* the token the recursive call is started with
recursive_token(res) == res.next_token

\* faulty variant: the pages of the waiting calls are lost
aggregated_last_page_only(held, last_items) == last_items

\* what the outermost call returns once the last page is read: every waiting
\* call appends the result of the call it made to its own page
aggregated(held, last_items) == Flatten(Append(held, last_items))

\* main after repos returned rs: sort_by, then the fold over the rows
ReposReturn(rs) ==
  /\ repos' = rs
  /\ sorted_repos' = sort_repos(rs)
  /\ row' = 1
  /\ pc' = IF rs = <<>> THEN "total" ELSE "rows"

\* try_fold of repos over the loaded repositories rs, from position i
TryFold(rs, acc, i) ==
  IF i > Len(rs)
  THEN /\ ReposReturn(acc)
       /\ idx' = idx
  ELSE /\ pc' = "load_all_images"
       /\ idx' = i
       /\ repos' = acc
       /\ UNCHANGED <<sorted_repos, row>>

\* load_all_repositories: one page request that succeeds
DescribeRepositories ==
  /\ pc = "load_all_repositories"
  /\ Len(requests) < MaxRequests
  /\ LET req   == DescribeRepositoriesRequest(next)
         res   == DescribeResponse(registry.repositories, req.next_token)
         items == unwrap_or_default(res.items, <<>>)
     IN  /\ requests' = Append(requests, req)
         /\ responses' = Append(responses, Some(res))
         /\ IF is_some(res.next_token)
            THEN /\ pending' = Append(pending, items)
                 /\ next' = recursive_token(res)
                 /\ UNCHANGED <<pc, repositories, idx, repos, sorted_repos, row>>
            ELSE /\ pending' = <<>>
                 /\ next' = None
                 /\ repositories' = aggregated(pending, items)
                 /\ TryFold(repositories', <<>>, 1)
  /\ UNCHANGED <<inputs, result, loaded, images, totals, writer, out>>

\* load_all_repositories: one page request that fails; `?` returns the error
\* through every waiting call, through repos and through main
DescribeRepositoriesErr ==
  /\ pc = "load_all_repositories"
  /\ Len(requests) < MaxRequests
  /\ requests' = Append(requests, DescribeRepositoriesRequest(next))
  /\ responses' = Append(responses, None)
  /\ pending' = <<>>
  /\ pc' = "exit"
  /\ result' = "error"
  /\ UNCHANGED <<inputs, next, repositories, idx, loaded, images, repos,
                 sorted_repos, row, totals, writer, out>>

repository_name_at(i) == unwrap_or_default(repositories[i].repository_name, 0)

\* load_all_images: one page request that succeeds
DescribeImages ==
  /\ pc = "load_all_images"
  /\ Len(requests) < MaxRequests
  /\ LET req   == DescribeImagesRequest(repository_name_at(idx), next)
         res   == DescribeResponse(registry.images[req.repository_name[1]],
                                   req.next_token)
         items == unwrap_or_default(res.items, <<>>)
     IN  /\ requests' = Append(requests, req)
         /\ responses' = Append(responses, Some(res))
         /\ IF is_some(res.next_token)
            THEN /\ pending' = Append(pending, items)
                 /\ next' = recursive_token(res)
                 /\ UNCHANGED <<pc, loaded>>
            ELSE /\ pending' = <<>>
                 /\ next' = None
                 /\ loaded' = aggregated(pending, items)
                 /\ pc' = "summarize"
  /\ UNCHANGED <<inputs, result, repositories, idx, images, repos, sorted_repos,
                 row, totals, writer, out>>

\* faulty variant: a failed page request ends the listing with the pages read
DescribeImagesErrKeepsPages ==
  /\ pc = "load_all_images"
  /\ Len(requests) < MaxRequests
  /\ requests' = Append(requests, DescribeImagesRequest(repository_name_at(idx), next))
  /\ responses' = Append(responses, None)
  /\ pending' = <<>>
  /\ next' = None
  /\ loaded' = aggregated(pending, <<>>)
  /\ pc' = "summarize"
  /\ UNCHANGED <<inputs, result, repositories, idx, images, repos, sorted_repos,
                 row, totals, writer, out>>

\* load_all_images: one page request that fails
DescribeImagesErr ==
  /\ pc = "load_all_images"
  /\ Len(requests) < MaxRequests
  /\ requests' = Append(requests, DescribeImagesRequest(repository_name_at(idx), next))
  /\ responses' = Append(responses, None)
  /\ pending' = <<>>
  /\ pc' = "exit"
  /\ result' = "error"
  /\ UNCHANGED <<inputs, next, repositories, idx, loaded, images, repos,
                 sorted_repos, row, totals, writer, out>>

\* the rest of the closure of try_fold: retain, sort_by, push the Repo
Summarize ==
  /\ pc = "summarize"
  /\ images' = ranked_images(loaded, first_of_the_month)
  /\ TryFold(repositories,
             Append(repos, Repo(repository_name_at(idx), images', cap)),
             idx + 1)
  /\ UNCHANGED <<inputs, result, requests, responses, next, pending,
                 repositories, loaded, totals, writer, out>>

\* the fold of main: one row written, the totals accumulated
WriteRow ==
  /\ pc = "rows"
  /\ LET repo == sorted_repos[row]
     IN  /\ writer' = IF format = "tsv" THEN Append(writer, Row(repo)) ELSE writer
         /\ out' = IF format = "csv" THEN Append(out, Row(repo)) ELSE out
         /\ totals' = accumulate(totals, repo)
  /\ row' = row + 1
  /\ pc' = IF row = Len(sorted_repos) THEN "total" ELSE "rows"
  /\ UNCHANGED <<inputs, result, requests, responses, next, pending,
                 repositories, idx, loaded, images, repos, sorted_repos>>

\* the write of a row fails: writeln! to the TabWriter returns the error, which
\* `totals?` returns from main; println! panics
WriteRowErr ==
  /\ pc = "rows"
  /\ format \in {"tsv", "csv"}
  /\ result' = IF format = "tsv" THEN "error" ELSE "panic"
  /\ pc' = "exit"
  /\ UNCHANGED <<inputs, requests, responses, next, pending, repositories, idx,
                 loaded, images, repos, sorted_repos, row, totals, writer, out>>

\* faulty variant: the total line is written whatever the format
FinishTotalAlways ==
  /\ pc = "total"
  /\ out' = out \o Append(writer, TotalLine(totals))
  /\ writer' = <<>>
  /\ result' = "ok"
  /\ pc' = "exit"
  /\ UNCHANGED <<inputs, requests, responses, next, pending, repositories, idx,
                 loaded, images, repos, sorted_repos, row, totals>>

\* after the fold: for tsv the total line and the flush of the TabWriter, which
\* hands its lines to standard output; nothing for any other format
Finish ==
  /\ pc = "total"
  /\ out' = IF format = "tsv" THEN out \o Append(writer, TotalLine(totals)) ELSE out
  /\ writer' = IF format = "tsv" THEN <<>> ELSE writer
  /\ result' = "ok"
  /\ pc' = "exit"
  /\ UNCHANGED <<inputs, requests, responses, next, pending, repositories, idx,
                 loaded, images, repos, sorted_repos, row, totals>>

\* the write of the total line or the flush fails
FinishErr ==
  /\ pc = "total"
  /\ format = "tsv"
  /\ result' = "error"
  /\ pc' = "exit"
  /\ UNCHANGED <<inputs, requests, responses, next, pending, repositories, idx,
                 loaded, images, repos, sorted_repos, row, totals, writer, out>>

Next ==
  \/ DescribeRepositories
  \/ DescribeRepositoriesErr
  \/ DescribeImages
  \/ DescribeImagesErr
  \/ Summarize
  \/ WriteRow
  \/ WriteRowErr
  \/ Finish
  \/ FinishErr

Spec == Init /\ [][Next]_vars

\* ================================================================ claims
Count(s, r) == Cardinality({i \in 1..Len(s) : s[i] = r})

Range(s) == {s[i] : i \in 1..Len(s)}

\* the items of page i of a chain, and the number of items before page i
ItemsOfPage(chain, i) == unwrap_or_default(chain.pages[i], <<>>)

RECURSIVE ItemsBefore(_, _)
ItemsBefore(chain, i) ==
  IF i = 1 THEN 0 ELSE ItemsBefore(chain, i - 1) + Len(ItemsOfPage(chain, i - 1))

\* s holds the items of each page of the chain, page after page, and no more
HoldsEveryPageOnce(s, chain) ==
  /\ Len(s) = ItemsBefore(chain, Len(chain.pages) + 1)
  /\ \A i \in 1..Len(chain.pages) : \A j \in 1..Len(ItemsOfPage(chain, i)) :
       s[ItemsBefore(chain, i) + j] = ItemsOfPage(chain, i)[j]

\* load_all_repositories has returned its result
RepositoriesReturned ==
  \E i \in 1..Len(responses) :
    /\ requests[i].op = "describe_repositories"
    /\ responses[i] # None
    /\ ~is_some(responses[i][1].next_token)

\* C1: started with no token over a finite chain of pages, load_all_repositories
\* and load_all_images return a collection whose length is the sum of the page
\* sizes and that holds every item of every page exactly once, however the
\* items are cut into pages (empty pages and absent item lists included).
C1_AggregatesEveryPage ==
  /\ RepositoriesReturned => HoldsEveryPageOnce(repositories, registry.repositories)
  /\ pc = "summarize" =>
       HoldsEveryPageOnce(loaded, registry.images[repository_name_at(idx)])

C1_Witness ==
  /\ pc = "summarize"
  /\ Len(loaded) = 2
  /\ loaded[1] # loaded[2]
  /\ LET chain == registry.images[repository_name_at(idx)]
     IN  /\ Len(chain.pages) = 3
         /\ chain.pages[2] = None
         /\ Len(ItemsOfPage(chain, 1)) = 1

\* C3: when page request number j of load_all_repositories or load_all_images
\* fails, the aggregation returns that error: the run ends with the error, the
\* failed request is the last request made (it is not retried and no page is
\* requested after it), and the items of the pages read before it are returned
\* nowhere: no repository list, and no Repo built from them.
C3_FailedPageAborts ==
  \A j \in 1..Len(responses) :
    responses[j] = None =>
      /\ j = Len(requests)
      /\ result = "error"
      /\ pc = "exit"
      /\ pending = <<>>
      /\ out = <<>> /\ writer = <<>> /\ sorted_repos = <<>>
      /\ IF requests[j].op = "describe_repositories"
         THEN repositories = <<>> /\ repos = <<>>
         ELSE /\ Len(repos) = idx - 1
              /\ IF idx = 1 THEN loaded = <<>>
                 ELSE HoldsEveryPageOnce(loaded,
                                         registry.images[repository_name_at(idx - 1)])

C3_Witness ==
  /\ Len(responses) >= 3
  /\ responses[Len(responses)] = None
  /\ requests[Len(requests)].op = "describe_images"
  /\ is_some(requests[Len(requests)].next_token)
  /\ unwrap_or_default(responses[Len(responses) - 1][1].items, <<>>) # <<>>

\* the requests of one listing: of the repositories, or of one repository's images
RequestsOf(op, name) ==
  Cardinality({i \in 1..Len(requests) :
                 requests[i].op = op /\ requests[i].repository_name = name})

ChainOf(req) ==
  IF req.op = "describe_repositories" THEN registry.repositories
  ELSE registry.images[req.repository_name[1]]

FiniteChains ==
  /\ registry.repositories.last_next = None
  /\ \A n \in DOMAIN registry.images : registry.images[n].last_next = None

\* C10: the first request of a listing carries no token; every later request
\* carries exactly the next token of the response before it, and for images
\* the same repository name; no request of the listing follows a response
\* without a next token; a listing over a chain of N pages takes exactly N
\* requests and is never stuck before it returns, and a listing whose every
\* response carries a next token never returns.
C10_TokenChaining ==
  /\ \A i \in 1..Len(requests) :
       IF i = 1
       THEN requests[i].op = "describe_repositories" /\ requests[i].next_token = None
       ELSE /\ responses[i - 1] # None
            /\ IF is_some(responses[i - 1][1].next_token)
               THEN /\ requests[i].next_token = responses[i - 1][1].next_token
                    /\ requests[i].op = requests[i - 1].op
                    /\ requests[i].repository_name = requests[i - 1].repository_name
               ELSE /\ requests[i].next_token = None
                    /\ requests[i].op = "describe_images"
                    /\ RequestsOf(requests[i].op, requests[i].repository_name) =
                         Cardinality({k \in i..Len(requests) :
                            /\ requests[k].op = requests[i].op
                            /\ requests[k].repository_name = requests[i].repository_name})
  /\ \A i \in 1..Len(requests) :
       LET chain == ChainOf(requests[i])
           n     == RequestsOf(requests[i].op, requests[i].repository_name)
       IN  /\ chain.last_next = None => n <= Len(chain.pages)
           /\ (responses[i] # None /\ ~is_some(responses[i][1].next_token)) =>
                chain.last_next = None /\ n = Len(chain.pages)
  /\ registry.repositories.last_next # None => ~RepositoriesReturned
  /\ \A i \in 1..Len(repos) : registry.images[repos[i].name].last_next = None
  /\ pc = "summarize" => registry.images[repository_name_at(idx)].last_next = None
  /\ (FiniteChains /\ pc \in {"load_all_repositories", "load_all_images"}) =>
       ENABLED (DescribeRepositories \/ DescribeImages)

C10_Witness ==
  /\ result = "ok"
  /\ Len(registry.repositories.pages) = 3
  /\ RequestsOf("describe_repositories", None) = 3
  /\ Len(repositories) = 2
  /\ Len(requests) = 5

\* the closure of try_fold has built the Repo of the images in `loaded`
Summarized == Len(repos) >= 1 /\ pc # "summarize"

LastRepo == repos[Len(repos)]

\* the push timestamp as the registry reports it (absent: epoch), in ticks
reported_pushed_at(details) == unwrap_or_default(details.image_pushed_at, 0)

BeforeCutoff(details) ==
  reported_pushed_at(details) < first_of_the_month * TicksPerSecond

\* `images` holds exactly the loaded records pushed strictly before the cutoff
KeepsExactlyEarlier ==
  \A r \in Range(loaded) \cup Range(images) :
    Count(images, r) = IF BeforeCutoff(r) THEN Count(loaded, r) ELSE 0

\* C4 as stated: the list repos uses after retain and sort_by holds exactly
\* the records pushed strictly before the cutoff and is ordered by push
\* timestamp descending, each record's timestamp >= the next one's.
C4_OrderedByPushTimestamp ==
  Summarized =>
    /\ KeepsExactlyEarlier
    /\ \A i \in 1..(Len(images) - 1) :
         reported_pushed_at(images[i]) >= reported_pushed_at(images[i + 1])

\* C4 as amended: the list holds exactly the records pushed strictly before
\* the cutoff and is ordered descending by the push timestamp cut to whole
\* seconds (records pushed within one second are not ordered by timestamp).
C4_OrderedByWholeSeconds ==
  Summarized =>
    /\ KeepsExactlyEarlier
    /\ \A i \in 1..(Len(images) - 1) :
         pushed_at(images[i]) >= pushed_at(images[i + 1])

C4_Witness ==
  /\ Summarized
  /\ Len(loaded) = 2
  /\ Len(images) = 2
  /\ images[1] = loaded[2]
  /\ pushed_at(images[1]) > pushed_at(images[2])

NonNegativeSizes(chain) ==
  \A i \in 1..Len(chain.pages) : \A d \in Range(ItemsOfPage(chain, i)) :
    unwrap_or_default(d.image_size_in_bytes, 0) >= 0

\* C5: for every Repo built by repos (cap >= 0, sizes non-negative, an absent
\* size being 0): recent_image_size <= aggregate_image_size, and a Repo with
\* no hosted image has latest, aggregate and recent size 0 and both costs 0.
C5_RecentWithinAggregate ==
  \A i \in 1..Len(repos) :
    LET r == repos[i]
    IN  (cap >= 0 /\ NonNegativeSizes(registry.images[r.name])) =>
          /\ r.recent_image_size <= r.aggregate_image_size
          /\ r.recent_image_size >= 0
          /\ r.hosted_images = 0 =>
               /\ r.latest_image_size = 0
               /\ r.aggregate_image_size = 0
               /\ r.recent_image_size = 0
               /\ monthly_cost(r) = 0
               /\ monthly_capped_cost(r) = 0

C5_Witness ==
  \E i, j \in 1..Len(repos) :
    /\ repos[i].hosted_images = 0
    /\ repos[j].hosted_images = 2
    /\ repos[j].recent_image_size < repos[j].aggregate_image_size
    /\ repos[j].recent_image_size > 0

RECURSIVE SizeOfFirst(_, _)
SizeOfFirst(imgs, k) ==
  IF k = 0 THEN 0
  ELSE SizeOfFirst(imgs, k - 1) + unwrap_or_default(imgs[k].image_size_in_bytes, 0)

\* C9: with n the number of images of the repository that pass the recency
\* filter, recent_image_size is the sum of the sizes of the first min(cap, n)
\* images of the ranked list, aggregate_image_size the sum of all n,
\* hosted_images is n and latest_image_size the size of the first ranked image
\* (0 when n = 0); so recent = aggregate when cap >= n, and latest <= recent
\* when cap >= 1.
C9_CappedWindow ==
  Summarized =>
    LET r == LastRepo
        n == Cardinality({i \in 1..Len(loaded) : BeforeCutoff(loaded[i])})
        m == IF cap < n THEN cap ELSE n
    IN  /\ Len(images) = n
        /\ r.hosted_images = n
        /\ r.aggregate_image_size = SizeOfFirst(images, n)
        /\ r.recent_image_size = SizeOfFirst(images, m)
        /\ r.latest_image_size = SizeOfFirst(images, IF n = 0 THEN 0 ELSE 1)
        /\ cap >= n => r.recent_image_size = r.aggregate_image_size
        /\ cap >= 1 => r.latest_image_size <= r.recent_image_size

C9_Witness ==
  /\ Summarized
  /\ cap = 1
  /\ Len(loaded) = 2
  /\ Len(images) = 2
  /\ images # loaded
  /\ LastRepo.latest_image_size > 0
  /\ LastRepo.recent_image_size < LastRepo.aggregate_image_size

\* the lines of one kind among the lines ls
LinesOf(ls, kind) ==
  retain(ls, [i \in 1..Len(ls) |-> ls[i].kind = kind])

\* the rows written so far, to the TabWriter or to standard output
RowsWritten == LinesOf(out \o writer, "row")

\* the place of the repository called name in the registry's listing
ListingPlace(name) ==
  CHOOSE i \in 1..Len(repositories) :
    unwrap_or_default(repositories[i].repository_name, 0) = name

\* C6: the rows main emits are the Repo values returned by repos, one row per
\* repository, in descending order of latest_image_size, and repositories of
\* equal latest_image_size keep the order of the registry's listing.
C6_RowsSortedStable ==
  row >= 1 =>
    /\ Len(sorted_repos) = Len(repositories)
    /\ \A i \in 1..Len(repos) :
         Count(sorted_repos, repos[i]) = 1 /\ Count(repos, sorted_repos[i]) = 1
    /\ \A i, j \in 1..Len(sorted_repos) :
         i < j =>
           /\ sorted_repos[i].latest_image_size >= sorted_repos[j].latest_image_size
           /\ sorted_repos[i].latest_image_size = sorted_repos[j].latest_image_size
                => ListingPlace(sorted_repos[i].name) < ListingPlace(sorted_repos[j].name)
    /\ format \in {"tsv", "csv"} =>
         /\ Len(RowsWritten) = row - 1
         /\ \A q \in 1..Len(RowsWritten) :
              /\ RowsWritten[q].name = sorted_repos[q].name
              /\ RowsWritten[q].latest_image_size = sorted_repos[q].latest_image_size
              /\ RowsWritten[q].hosted_images = sorted_repos[q].hosted_images
              /\ RowsWritten[q].last_pushed_at = sorted_repos[q].last_pushed_at
         /\ result = "ok" =>
              LinesOf(out, "row") = RowsWritten /\ Len(RowsWritten) = Len(repos)

C6_Witness ==
  /\ result = "ok"
  /\ format = "csv"
  /\ Len(out) = 3
  /\ out[1].latest_image_size = out[2].latest_image_size
  /\ out[2].latest_image_size > out[3].latest_image_size
  /\ sorted_repos # repos

RECURSIVE CostOfFirst(_, _)
CostOfFirst(rs, k) ==
  IF k = 0 THEN 0
  ELSE CostOfFirst(rs, k - 1) + rs[k].aggregate_image_size * CompressionPct * PricePct

RECURSIVE CappedCostOfFirst(_, _)
CappedCostOfFirst(rs, k) ==
  IF k = 0 THEN 0
  ELSE CappedCostOfFirst(rs, k - 1) + rs[k].recent_image_size * CompressionPct * PricePct

RECURSIVE SumOfRows(_, _)
SumOfRows(ls, capped) ==
  IF ls = <<>> THEN 0
  ELSE (IF capped THEN Head(ls).monthly_capped_cost ELSE Head(ls).monthly_cost)
         + SumOfRows(Tail(ls), capped)

\* C7: the totals are accumulated from 0 in the order of the rows; in a
\* successful run they are the sum of monthly_cost and the sum of
\* monthly_capped_cost over all repositories, each counted once, and the two
\* values of the total line are the totals, the sums of the costs of the rows.
C7_TotalsAreSums ==
  row >= 1 =>
    /\ totals = <<CostOfFirst(sorted_repos, row - 1),
                  CappedCostOfFirst(sorted_repos, row - 1)>>
    /\ result = "ok" =>
         /\ totals = <<CostOfFirst(repos, Len(repos)),
                       CappedCostOfFirst(repos, Len(repos))>>
         /\ format = "tsv" =>
              /\ out[Len(out)].monthly = SumOfRows(LinesOf(out, "row"), FALSE)
              /\ out[Len(out)].capped = SumOfRows(LinesOf(out, "row"), TRUE)
              /\ <<out[Len(out)].monthly, out[Len(out)].capped>> = totals

C7_Witness ==
  /\ result = "ok"
  /\ format = "tsv"
  /\ Len(out) = 3
  /\ out[3].capped > 0
  /\ out[3].monthly > out[3].capped
  /\ out[1].monthly_capped_cost > 0
  /\ out[2].monthly_capped_cost > 0

\* C8: in a successful run, csv emits one line per repository and never a
\* total line; tsv emits exactly one total line, after all the repository
\* rows; any other format emits neither rows nor a total line, and the run
\* succeeds all the same.
C8_LinesPerFormat ==
  /\ format = "csv" =>
       /\ LinesOf(out \o writer, "total") = <<>>
       /\ result = "ok" => Len(out) = Len(repositories) /\ LinesOf(out, "row") = out
  /\ format = "tsv" =>
       /\ result # "ok" => out = <<>>
       /\ result = "ok" =>
            /\ Len(out) = Len(repositories) + 1
            /\ Len(LinesOf(out, "total")) = 1
            /\ out[Len(out)].kind = "total"
            /\ \A i \in 1..(Len(out) - 1) : out[i].kind = "row"
  /\ format \notin {"tsv", "csv"} =>
       /\ out = <<>>
       /\ writer = <<>>
       /\ (row >= 1 /\ pc = "exit") => result = "ok"

C8_Witness ==
  /\ result = "ok"
  /\ format \notin {"tsv", "csv"}
  /\ Len(repos) = 2
  /\ totals[1] > 0
  /\ out = <<>>

\* C2 as stated: at the first error of a run (a failed page request for the
\* repositories or for the images of any repository, or a failed write) the
\* run ends with an error and no repository row and no total line has
\* reached standard output; every registry request is made before the first
\* row is written.
C2_NoPartialReport ==
  /\ result \in {"error", "panic"} => out = <<>>
  /\ (out # <<>> \/ writer # <<>>) =>
       /\ pc \notin {"load_all_repositories", "load_all_images", "summarize"}
       /\ Len(repos) = Len(repositories)

====
